---- MODULE Spec2Model ----
(***************************************************************************)
(* The AdEx explorer UI (src/src/lib.rs): a seed application whose Model   *)
(* is a Loadable list of market channels plus a sort choice, whose update  *)
(* function handles the four messages of Msg, and whose view recomputes    *)
(* the totals and the channel table on every render pass.                  *)
(***************************************************************************)
EXTENDS Integers, Sequences, FiniteSets, TLC

(***************************************************************************)
(* Bounds of the model.                                                    *)
(***************************************************************************)
\* longest channel list a render pass is checked on
MaxChannels == 3
\* longest channel list a market response carries while fetches interleave
MaxResponse == 1
\* most fetches in flight at once
MaxInFlight == 2
\* width the u64 of total_impressions is modelled with
U64Bits == 4
\* width the significand of an f64 is modelled with
F64Bits == 20

(***************************************************************************)
(* Constants and data types of lib.rs.                                     *)
(***************************************************************************)
DAI_ADDR == "0x89d24A6b4CcB1B6fAA2625fE562bDD9a23260359"
\* some other deposit asset
OTHER_ADDR == "0x0000000000000000000000000000000000000001"

\* #[derive(PartialOrd, Ord)]: the variants compare in declaration order
MarketStatusType ==
    << "Initializing", "Ready", "Active", "Offline", "Disconnected",
       "Unhealthy", "Withdraw", "Expired", "Exhausted" >>

StatusOrd(s) == CHOOSE i \in 1..Len(MarketStatusType) : MarketStatusType[i] = s

\* the largest u64, at the modelled width
U64_MAX == 2^U64Bits - 1

\* MarketStatus and MarketChannel records (the fields the view reads)
MarketStatus(status_type, balances) ==
    [status_type |-> status_type, balances |-> balances]

MarketChannel(id, deposit_asset, deposit_amount, status, min_per_impression) ==
    [id |-> id, deposit_asset |-> deposit_asset, deposit_amount |-> deposit_amount,
     status |-> status, spec |-> [min_per_impression |-> min_per_impression]]

NoBalances == [v \in {} |-> 0]

\* The channels a market response is made of: two DAI channels of different
\* deposit, a channel of another asset, a DAI channel tying with the first on
\* deposit, a channel with minPerImpression 0, a DAI channel with deposit 0,
\* a channel whose impressions quotient exceeds U64_MAX, a DAI channel tying
\* with the first on status and with the second on deposit, and a DAI channel
\* that has paid out many times its deposit.
ChannelPool ==
    { MarketChannel("a", DAI_ADDR, 100,
          MarketStatus("Active", ("v1" :> 6) @@ ("v2" :> 4)), 1),
      MarketChannel("b", DAI_ADDR, 50,
          MarketStatus("Ready", ("v1" :> 5)), 1),
      MarketChannel("c", OTHER_ADDR, 1000,
          MarketStatus("Active", NoBalances), 1),
      MarketChannel("d", DAI_ADDR, 100,
          MarketStatus("Expired", ("v1" :> 7)), 2),
      MarketChannel("e", OTHER_ADDR, 50,
          MarketStatus("Active", ("v1" :> 5)), 0),
      MarketChannel("f", DAI_ADDR, 0,
          MarketStatus("Initializing", NoBalances), 1),
      MarketChannel("g", OTHER_ADDR, 200,
          MarketStatus("Active", ("v1" :> 60) @@ ("v2" :> 40)), 1),
      MarketChannel("h", DAI_ADDR, 50,
          MarketStatus("Active", ("v1" :> 1)), 1),
      MarketChannel("k", DAI_ADDR, 3,
          MarketStatus("Withdraw", ("v1" :> 100)), 1) }

\* the channel lists a render pass is checked on
ViewInputs == UNION { [1..n -> ChannelPool] : n \in 0..MaxChannels }

\* the channels of the responses that arrive while fetches interleave: a DAI
\* channel, the channel with minPerImpression 0 and the one with deposit 0
ResponsePool == { x \in ChannelPool : x.id \in {"a", "e", "f"} }

\* the documents fetch_json decodes: Vec<MarketChannel>
Responses == UNION { [1..n -> ResponsePool] : n \in 0..MaxResponse }

\* enum Loadable<T>
Loading == [tag |-> "Loading", val |-> << >>]
Ready(c) == [tag |-> "Ready", val |-> c]

\* impl Default for Model
ModelDefault == [channels |-> Loading, sort |-> "Deposit"]

\* enum Msg
MsgLoadCampaigns == [type |-> "LoadCampaigns", channels |-> << >>, sort_name |-> ""]
MsgChannelsLoaded(c) == [type |-> "ChannelsLoaded", channels |-> c, sort_name |-> ""]
MsgOnFetchErr == [type |-> "OnFetchErr", channels |-> << >>, sort_name |-> ""]
MsgSortSelected(name) == [type |-> "SortSelected", channels |-> << >>, sort_name |-> name]
\* no message processed yet
NoMsg == [type |-> "None", channels |-> << >>, sort_name |-> ""]

\* the strings a SortSelected message is tried with
SortNames == {"deposit", "status", "bogus"}

(***************************************************************************)
(* update                                                                  *)
(***************************************************************************)
\* What one arm of update yields: the model after the message, whether a
\* fetch was ordered (perform_cmd) and whether the render pass is skipped
\* (orders.skip()).

\* a refresh that blanks the list while the fetch is under way
load_campaigns_blanks(model) ==
    [model |-> [model EXCEPT !.channels = Loading], cmd |-> TRUE, skip |-> TRUE]

\* Msg::LoadCampaigns => the fetch is ordered, the render is skipped
on_load_campaigns(model) ==
    [model |-> model, cmd |-> TRUE, skip |-> TRUE]

\* a handler that extends the list it already holds
channels_loaded_merges(channels, model) ==
    [model |-> [model EXCEPT !.channels = Ready(model.channels.val \o channels)],
     cmd |-> FALSE, skip |-> FALSE]

\* a handler that builds the model anew around the payload
channels_loaded_resets_sort(channels, model) ==
    [model |-> [channels |-> Ready(channels), sort |-> "Deposit"],
     cmd |-> FALSE, skip |-> FALSE]

\* Msg::ChannelsLoaded(channels) => model.channels = Loadable::Ready(channels)
on_channels_loaded(channels, model) ==
    [model |-> [model EXCEPT !.channels = Ready(channels)],
     cmd |-> FALSE, skip |-> FALSE]

\* a handler that falls back to Loading on an error
fetch_err_clears(model) ==
    [model |-> [model EXCEPT !.channels = Loading], cmd |-> FALSE, skip |-> FALSE]

\* Msg::OnFetchErr(_) => ()
on_fetch_err(model) ==
    [model |-> model, cmd |-> FALSE, skip |-> FALSE]

\* a match whose "status" arm is missing
sort_selected_no_status(sort_name, model) ==
    [model |-> CASE sort_name = "deposit" -> [model EXCEPT !.sort = "Deposit"]
                 [] OTHER -> model,
     cmd |-> FALSE, skip |-> FALSE]

\* a match whose default arm resets the sort
sort_selected_default_resets(sort_name, model) ==
    [model |-> CASE sort_name = "deposit" -> [model EXCEPT !.sort = "Deposit"]
                 [] sort_name = "status" -> [model EXCEPT !.sort = "Status"]
                 [] OTHER -> [model EXCEPT !.sort = "Deposit"],
     cmd |-> FALSE, skip |-> FALSE]

\* a handler that shows the placeholder again after a sort choice
sort_selected_reloads(sort_name, model) ==
    [model |-> CASE sort_name = "deposit" -> [channels |-> Loading, sort |-> "Deposit"]
                 [] sort_name = "status" -> [channels |-> Loading, sort |-> "Status"]
                 [] OTHER -> model,
     cmd |-> FALSE, skip |-> FALSE]

\* Msg::SortSelected(sort_name) => match &sort_name as &str
on_sort_selected(sort_name, model) ==
    [model |-> CASE sort_name = "deposit" -> [model EXCEPT !.sort = "Deposit"]
                 [] sort_name = "status" -> [model EXCEPT !.sort = "Status"]
                 [] OTHER -> model,
     cmd |-> FALSE, skip |-> FALSE]

\* fn update
update(m, model) ==
    CASE m.type = "LoadCampaigns" -> on_load_campaigns(model)
      [] m.type = "ChannelsLoaded" -> on_channels_loaded(m.channels, model)
      [] m.type = "OnFetchErr" -> on_fetch_err(model)
      [] m.type = "SortSelected" -> on_sort_selected(m.sort_name, model)

(***************************************************************************)
(* view                                                                    *)
(***************************************************************************)
RECURSIVE SumValues(_, _)
SumValues(f, keys) ==
    IF keys = {} THEN 0
    ELSE LET k == CHOOSE x \in keys : TRUE
         IN f[k] + SumValues(f, keys \ {k})

\* MarketStatus::balances_sum: the sum of the values of the balances map
balances_sum(status) == SumValues(status.balances, DOMAIN status.balances)

\* BigUint::to_u64: None (here -1) when the value does not fit
to_u64(n) == IF n <= U64_MAX THEN n ELSE -1

\* .to_u64().unwrap_or(0)
to_u64_or_0(n) == IF to_u64(n) = -1 THEN 0 ELSE to_u64(n)

\* Iterator::sum::<u64>: left to right from 0. An addition that overflows
\* panics where overflow checks are on (here -1) and wraps where they are off.
RECURSIVE sum_u64(_, _, _)
sum_u64(s, acc, overflow_checks) ==
    IF s = << >> THEN acc
    ELSE LET n == acc + Head(s)
         IN IF n > U64_MAX
            THEN IF overflow_checks THEN -1
                 ELSE sum_u64(Tail(s), n % (U64_MAX + 1), overflow_checks)
            ELSE sum_u64(Tail(s), n, overflow_checks)

\* Iterator::sum::<BigUint>
RECURSIVE sum_big(_)
sum_big(s) == IF s = << >> THEN 0 ELSE Head(s) + sum_big(Tail(s))

\* slice::sort_by / sort_by_key are stable: s ordered by ascending key, the
\* elements of equal key in their order in s
stable_sort(s, key) ==
    LET n == Len(s)
        pos(i) == 1 + Cardinality({ j \in 1..n :
                        key[j] < key[i] \/ (key[j] = key[i] /\ j < i) })
    IN [p \in 1..n |-> s[CHOOSE i \in 1..n : pos(i) = p]]

\* a sort by ascending deposit followed by a reversal: descending, the
\* channels of equal deposit in the reverse of their order in s
sort_by_deposit_reversed(s) ==
    LET up == stable_sort(s, [i \in 1..Len(s) |-> s[i].deposit_amount])
    IN [i \in 1..Len(s) |-> up[Len(s) + 1 - i]]

\* a sort by the name of the status instead of its place in the enum
sort_by_status_name(s) ==
    LET names == << "Active", "Disconnected", "Exhausted", "Expired",
                    "Initializing", "Offline", "Ready", "Unhealthy", "Withdraw" >>
        ord(t) == CHOOSE i \in 1..Len(names) : names[i] = t
    IN stable_sort(s, [i \in 1..Len(s) |-> ord(s[i].status.status_type)])

\* channels_dai.sort_by(|x, y| y.deposit_amount.0.cmp(&x.deposit_amount.0))
sort_by_deposit(s) == stable_sort(s, [i \in 1..Len(s) |-> 0 - s[i].deposit_amount])

\* channels_dai.sort_by_key(|x| x.status.status_type.clone())
sort_by_status(s) == stable_sort(s, [i \in 1..Len(s) |-> StatusOrd(s[i].status.status_type)])

\* a view that lists the channels of every asset
filter_none(channels) == channels

\* the filter of view: the channels whose deposit asset is DAI
filter_dai(channels) == SelectSeq(channels, LAMBDA x : x.deposit_asset = DAI_ADDR)

\* the precision base of the paid percentage
base == 100000

\* the number of binary digits of n > 0
RECURSIVE BitLen(_)
BitLen(n) == IF n < 2 THEN 1 ELSE 1 + BitLen(n \div 2)

\* the nearest value to n with F64Bits significant binary digits, a tie
\* going to the even one
nearest_f64(n) ==
    IF n < 2^F64Bits THEN n
    ELSE LET unit == 2^(BitLen(n) - F64Bits)
             low == (n \div unit) * unit
             rest == n - low
         IN IF 2 * rest < unit THEN low
            ELSE IF 2 * rest > unit THEN low + unit
            ELSE IF (n \div unit) % 2 = 0 THEN low ELSE low + unit

\* BigUint::to_f64 (None only beyond the largest f64, far above the
\* magnitudes here, so unwrap_or(base) is not taken); n is evaluated once
to_f64(n) == CHOOSE f \in { nearest_f64(x) : x \in {n} } : TRUE

\* a row whose percentage divides before it scales
view_channel_divides_first(channel) ==
    LET deposit_amount == channel.deposit_amount
        paid_total == balances_sum(channel.status)
    IN IF deposit_amount = 0
       THEN [panic |-> TRUE, id |-> channel.id, deposit |-> deposit_amount,
             paid |-> paid_total, paid_units |-> 0, percent |-> << 0, 0 >>,
             status |-> channel.status.status_type]
       ELSE LET paid_units == (paid_total \div deposit_amount) * base
            IN [panic |-> FALSE, id |-> channel.id, deposit |-> deposit_amount,
                paid |-> paid_total, paid_units |-> paid_units,
                percent |-> << to_f64(paid_units) \div (base \div 100),
                               to_f64(paid_units) % (base \div 100) >>,
                status |-> channel.status.status_type]

\* fn view_channel: one table row. BigUint::div_floor panics on a zero
\* divisor. paid_units.to_f64() / (base / 100) is shown with three decimals:
\* the whole percents and the thousandths.
view_channel(channel) ==
    LET deposit_amount == channel.deposit_amount
        paid_total == balances_sum(channel.status)
    IN IF deposit_amount = 0
       THEN [panic |-> TRUE, id |-> channel.id, deposit |-> deposit_amount,
             paid |-> paid_total, paid_units |-> 0, percent |-> << 0, 0 >>,
             status |-> channel.status.status_type]
       ELSE LET paid_units == (paid_total * base) \div deposit_amount
            IN [panic |-> FALSE, id |-> channel.id, deposit |-> deposit_amount,
                paid |-> paid_total, paid_units |-> paid_units,
                percent |-> << to_f64(paid_units) \div (base \div 100),
                               to_f64(paid_units) % (base \div 100) >>,
                status |-> channel.status.status_type]

\* fn view_channel_table: the rows below the header, in the order given
view_channel_table(channels) == [i \in 1..Len(channels) |-> view_channel(channels[i])]

LoadingEl ==
    [kind |-> "Loading", total_deposit |-> 0, total_paid |-> 0,
     total_impressions |-> 0, rows |-> << >>]
PanicEl ==
    [kind |-> "Panic", total_deposit |-> 0, total_paid |-> 0,
     total_impressions |-> 0, rows |-> << >>]

\* the per-channel impressions of view; BigUint division panics on a zero
\* divisor
impressions(channels) ==
    IF \E i \in 1..Len(channels) : channels[i].spec.min_per_impression = 0
    THEN [panic |-> TRUE, per |-> << >>]
    ELSE [panic |-> FALSE,
          per |-> [i \in 1..Len(channels) |->
                     to_u64_or_0(balances_sum(channels[i].status)
                                 \div channels[i].spec.min_per_impression)]]

\* a total that misses the first channel of the list
total_paid_skips_first(channels_dai) ==
    sum_big([i \in 1..(Len(channels_dai) - 1) |->
                balances_sum(channels_dai[i + 1].status)])

\* total_paid of view: the balances sums of the DAI channels
total_paid(channels_dai) ==
    sum_big([i \in 1..Len(channels_dai) |-> balances_sum(channels_dai[i].status)])

\* match model.sort: channels_dai after the sort chosen
sorted_dai(channels_dai, sort) ==
    IF sort = "Deposit" THEN sort_by_deposit(channels_dai)
    ELSE sort_by_status(channels_dai)

\* total_deposit of view: the deposits of the sorted DAI channels
total_deposit(channels_dai) ==
    sum_big([i \in 1..Len(channels_dai) |-> channels_dai[i].deposit_amount])

\* the Ready arm of view, given the per-channel impressions and the DAI
\* channels of the list
view_ready(per_channel, channels_dai, sort, overflow_checks) ==
    IF per_channel.panic THEN PanicEl
    ELSE IF sum_u64(per_channel.per, 0, overflow_checks) = -1 THEN PanicEl
    ELSE IF \E i \in 1..Len(channels_dai) : view_channel(channels_dai[i]).panic
    THEN PanicEl
    ELSE CHOOSE el \in
            { [kind |-> "Table",
               total_deposit |-> total_deposit(sorted),
               total_paid |-> total_paid(channels_dai),
               total_impressions |-> sum_u64(per_channel.per, 0, overflow_checks),
               rows |-> view_channel_table(sorted)] :
              sorted \in {sorted_dai(channels_dai, sort)} } : TRUE

\* fn view: the element tree of one render pass, or the panic that ends it:
\* in the division of total_impressions, in its sum, or in one of the rows.
\* The impressions, the filtered list and the sorted list are each computed
\* once, as in the code.
view(m, overflow_checks) ==
    IF m.channels.tag = "Loading" THEN LoadingEl
    ELSE CHOOSE el \in
            { view_ready(per_channel, channels_dai, m.sort, overflow_checks) :
              per_channel \in {impressions(m.channels.val)},
              channels_dai \in {filter_dai(m.channels.val)} } : TRUE

(***************************************************************************)
(* The running application.                                                *)
(***************************************************************************)
VARIABLES
    pc,               \* "start" before render() has run, "running" after
    model,            \* the Model the App owns
    inflight,         \* the fetches ordered and not yet completed, oldest first;
                      \* overtaken: a fetch ordered later has already succeeded
    rendered,         \* the outcome of the last render pass
    msg,              \* the last message update was called with
    stale,            \* the last ChannelsLoaded came from an overtaken fetch
    overflow_checks   \* whether the build checks integer overflow

vars == << pc, model, inflight, rendered, msg, stale, overflow_checks >>

\* the sequence s without its i-th element
RemoveAt(s, i) == [j \in 1..(Len(s) - 1) |-> IF j < i THEN s[j] ELSE s[j + 1]]

\* a name for the Future of a new fetch: the least number no fetch in
\* flight bears
FreshId(pending) ==
    CHOOSE n \in 0..Len(pending) :
        /\ \A j \in 1..Len(pending) : pending[j].id # n
        /\ \A k \in 0..(n - 1) : \E j \in 1..Len(pending) : pending[j].id = k

\* a render pass that filters and sorts the channel list of the model itself
DispatchSortsInPlace(m, pending) ==
    \E r \in {update(m, model)} :
       /\ msg' = m
       /\ model' = IF r.skip \/ r.model.channels.tag = "Loading" THEN r.model
                   ELSE [r.model EXCEPT !.channels =
                            Ready(sorted_dai(filter_dai(r.model.channels.val), r.model.sort))]
       /\ inflight' = IF r.cmd
                      THEN Append(pending, [id |-> FreshId(pending), overtaken |-> FALSE])
                      ELSE pending
       /\ rendered' = IF r.skip THEN rendered ELSE view(r.model, overflow_checks)

\* App::update: one call of update, the command it ordered and, unless
\* skipped, one render pass over the new model
Dispatch(m, pending) ==
    \E r \in {update(m, model)} :
       /\ msg' = m
       /\ model' = r.model
       /\ inflight' = IF r.cmd
                      THEN Append(pending, [id |-> FreshId(pending), overtaken |-> FALSE])
                      ELSE pending
       /\ rendered' = IF r.skip THEN rendered ELSE view(r.model, overflow_checks)

Init ==
    /\ pc = "start"
    /\ model = ModelDefault
    /\ inflight = << >>
    /\ rendered = view(ModelDefault, FALSE)
    /\ msg = NoMsg
    /\ stale = FALSE
    /\ overflow_checks \in BOOLEAN

\* pub fn render: the app is built and run, the first LoadCampaigns is sent
\* and the interval timer is set
render ==
    /\ pc = "start"
    /\ pc' = "running"
    /\ Dispatch(MsgLoadCampaigns, inflight)
    /\ UNCHANGED << stale, overflow_checks >>

\* a timer that waits for the fetches in flight
TimerTickDeduplicated ==
    /\ pc = "running"
    /\ inflight = << >>
    /\ Dispatch(MsgLoadCampaigns, inflight)
    /\ UNCHANGED << pc, stale, overflow_checks >>

\* a timer whose fetch replaces the fetches in flight
TimerTickCancels ==
    /\ pc = "running"
    /\ Len(inflight) < MaxInFlight
    /\ Dispatch(MsgLoadCampaigns, << >>)
    /\ UNCHANGED << pc, stale, overflow_checks >>

\* the set_interval closure: state.update(Msg::LoadCampaigns) every UPDATE_MS
TimerTick ==
    /\ pc = "running"
    /\ Len(inflight) < MaxInFlight
    /\ Dispatch(MsgLoadCampaigns, inflight)
    /\ UNCHANGED << pc, stale, overflow_checks >>

\* a completion that is dropped when a later fetch has already succeeded
FetchOkSequenced(i, c) ==
    /\ pc = "running"
    /\ i \in 1..Len(inflight)
    /\ IF inflight[i].overtaken
       THEN /\ msg' = MsgChannelsLoaded(c)
            /\ inflight' = RemoveAt(inflight, i)
            /\ UNCHANGED << model, rendered >>
       ELSE Dispatch(MsgChannelsLoaded(c),
                     RemoveAt([j \in 1..Len(inflight) |->
                                 IF j < i THEN [inflight[j] EXCEPT !.overtaken = TRUE] ELSE inflight[j]], i))
    /\ stale' = inflight[i].overtaken
    /\ UNCHANGED << pc, overflow_checks >>

\* the i-th fetch in flight resolves: .map(Msg::ChannelsLoaded)
FetchOk(i, c) ==
    /\ pc = "running"
    /\ i \in 1..Len(inflight)
    /\ Dispatch(MsgChannelsLoaded(c),
                RemoveAt([j \in 1..Len(inflight) |->
                            IF j < i THEN [inflight[j] EXCEPT !.overtaken = TRUE] ELSE inflight[j]], i))
    /\ stale' = inflight[i].overtaken
    /\ UNCHANGED << pc, overflow_checks >>

\* the i-th fetch in flight fails (transport or decode): .map_err(Msg::OnFetchErr)
FetchErr(i) ==
    /\ pc = "running"
    /\ i \in 1..Len(inflight)
    /\ Dispatch(MsgOnFetchErr, RemoveAt(inflight, i))
    /\ UNCHANGED << pc, stale, overflow_checks >>

\* input_ev(Ev::Input, Msg::SortSelected): the handler takes any String
SortInput(name) ==
    /\ pc = "running"
    /\ Dispatch(MsgSortSelected(name), inflight)
    /\ UNCHANGED << pc, stale, overflow_checks >>

Next ==
    \/ render
    \/ TimerTick
    \/ \E i \in 1..MaxInFlight, c \in Responses : FetchOk(i, c)
    \/ \E i \in 1..MaxInFlight : FetchErr(i)
    \/ \E name \in SortNames : SortInput(name)

Spec == Init /\ [][Next]_vars

\* The render passes over one channel list: the states right after the first
\* fetch has delivered the list c, under either sort choice, and from there
\* the render passes that follow the SortSelected messages.
InitView ==
    /\ pc = "running"
    /\ overflow_checks \in BOOLEAN
    /\ \E c \in ViewInputs, s \in {"Deposit", "Status"} :
          /\ model = [channels |-> Ready(c), sort |-> s]
          /\ msg = MsgChannelsLoaded(c)
    /\ rendered = view(model, overflow_checks)
    /\ inflight = << >>
    /\ stale = FALSE

NextView == \E name \in SortNames : SortInput(name)

ViewSpec == InitView /\ [][NextView]_vars

\* render is called when the page loads, the timer keeps firing and every
\* fetch resolves or fails
FairSpec ==
    /\ Spec
    /\ WF_vars(render)
    /\ WF_vars(TimerTick)
    /\ \A i \in 1..MaxInFlight :
          WF_vars((\E c \in Responses : FetchOk(i, c)) \/ FetchErr(i))

(***************************************************************************)
(* Properties of update and of the scheduling.                             *)
(***************************************************************************)
\* the ids of a channel list, in order
Ids(channels) == [i \in 1..Len(channels) |-> channels[i].id]

\* C1: whatever the state before, processing ChannelsLoaded(c) leaves the
\* channels cell equal to exactly Ready(c): nothing of the previous payload
\* is kept or merged, and the sort choice is not touched.
C1_ChannelsLoadedReplaces ==
    [][msg'.type = "ChannelsLoaded" =>
          /\ model'.channels = Ready(msg'.channels)
          /\ model'.sort = model.sort]_vars

\* C1 witness: a ChannelsLoaded that arrived after an earlier one had been
\* applied left exactly its own one-channel list.
C1_Witness ==
    /\ msg.type = "ChannelsLoaded"
    /\ stale
    /\ Len(msg.channels) = 1
    /\ model.channels = Ready(msg.channels)

\* C2: processing OnFetchErr leaves the Loading/Ready(channels) cell and
\* the sort choice exactly as they were.
C2_FetchErrLeavesModel ==
    [][msg'.type = "OnFetchErr" => model' = model]_vars

\* C2 witness: an OnFetchErr was processed and a non-empty Ready list is
\* still there.
C2_Witness ==
    /\ msg.type = "OnFetchErr"
    /\ model.channels.tag = "Ready"
    /\ Len(model.channels.val) > 0

\* C3: completions are not sequenced: the ChannelsLoaded of a fetch that was
\* ordered before another fetch whose ChannelsLoaded has already been applied
\* is applied all the same, and the state becomes Ready(its payload).
C3_StaleCompletionApplied ==
    [][(msg'.type = "ChannelsLoaded" /\ stale') =>
          model'.channels = Ready(msg'.channels)]_vars

\* C3 witness: both fetches are done, the older one completed last and the
\* state shows its payload, so "the payload comes from the latest fetch that
\* succeeded" (~stale) is no invariant.
C3_Witness ==
    /\ stale
    /\ msg.type = "ChannelsLoaded"
    /\ inflight = << >>
    /\ model.channels = Ready(msg.channels)
    /\ Len(msg.channels) = MaxResponse

\* C4: SortSelected("deposit") sets the sort to Deposit and
\* SortSelected("status") sets it to Status, from any sort and any channels
\* cell.
C4_SortSelectedSets ==
    [][/\ (msg'.type = "SortSelected" /\ msg'.sort_name = "deposit")
            => model'.sort = "Deposit"
       /\ (msg'.type = "SortSelected" /\ msg'.sort_name = "status")
            => model'.sort = "Status"]_vars

\* C4 witness: "status" was selected while still Loading, and the sort (which
\* starts as Deposit) is Status.
C4_Witness ==
    /\ msg = MsgSortSelected("status")
    /\ model.channels.tag = "Loading"
    /\ model.sort = "Status"

\* C5: SortSelected with a name other than "deposit" and "status" leaves the
\* sort and the channels cell unchanged, and the application keeps running.
C5_UnknownSortIgnored ==
    [][(msg'.type = "SortSelected" /\ msg'.sort_name \notin {"deposit", "status"})
          => (model' = model /\ pc' = "running")]_vars

\* C5 witness: "bogus" was selected and the sort is still the Status chosen
\* earlier.
C5_Witness ==
    /\ msg = MsgSortSelected("bogus")
    /\ model.sort = "Status"
    /\ model.channels.tag = "Ready"

\* C6: processing LoadCampaigns leaves the model (channels cell and sort) as
\* it was; its only effect is one more fetch in flight (no render pass
\* either).
C6_LoadCampaignsOnlyFetches ==
    [][msg'.type = "LoadCampaigns" =>
          /\ model' = model
          /\ rendered' = rendered
          /\ Len(inflight') = Len(inflight) + 1
          /\ \A j \in 1..Len(inflight) : inflight'[j] = inflight[j]]_vars

\* C6 witness: a LoadCampaigns was processed over a non-empty Ready list
\* while another fetch was in flight.
C6_Witness ==
    /\ msg.type = "LoadCampaigns"
    /\ model.channels.tag = "Ready"
    /\ Len(model.channels.val) > 0
    /\ Len(inflight) = 2

\* C7: the first message of a session is the LoadCampaigns of render; the
\* timer then sends LoadCampaigns again and again forever; a tick is enabled
\* whatever the number of fetches in flight (up to MaxInFlight, the bound of
\* the model) and the timer is never stopped.
C7_TimerForever ==
    /\ [][msg.type = "None" => (msg'.type = "LoadCampaigns" /\ pc = "start")]_vars
    /\ [](pc = "start" => msg.type = "None")
    /\ []((pc = "running" /\ Len(inflight) < MaxInFlight) => ENABLED TimerTick)
    /\ [][pc = "running" => pc' = "running"]_vars
    /\ []<><<TimerTick>>_vars

\* C7 witness: a tick has fired while an earlier fetch was still in flight.
C7_Witness ==
    /\ msg.type = "LoadCampaigns"
    /\ Len(inflight) = MaxInFlight
    /\ model.channels.tag = "Ready"

(***************************************************************************)
(* Properties of the render pass.                                          *)
(***************************************************************************)
\* the impressions of the channels whose minPerImpression is not zero
RECURSIVE ImpressionsOfNonZero(_)
ImpressionsOfNonZero(channels) ==
    IF channels = << >> THEN 0
    ELSE (IF Head(channels).spec.min_per_impression = 0 THEN 0
          ELSE balances_sum(Head(channels).status)
                   \div Head(channels).spec.min_per_impression)
         + ImpressionsOfNonZero(Tail(channels))

\* C8: with a channel of minPerImpression 0 in the Ready list, the render
\* pass completes and total_impressions is the sum of the other channels'
\* quotients (the channel contributes 0).
C8_ZeroMinPerImpressionExcluded ==
    (/\ model.channels.tag = "Ready"
     /\ \E i \in 1..Len(model.channels.val) :
            model.channels.val[i].spec.min_per_impression = 0)
    => /\ rendered.kind = "Table"
       /\ rendered.total_impressions = ImpressionsOfNonZero(model.channels.val)

\* what the percentage cell shows for unwrap_or(base): 100.000
SaturationPercent == << 100, 0 >>

\* C9: with a DAI channel of deposit 0 in the Ready list (and no
\* minPerImpression of 0), the render pass completes and the row of that
\* channel shows the saturation placeholder.
C9_ZeroDepositSaturates ==
    (/\ model.channels.tag = "Ready"
     /\ \A i \in 1..Len(model.channels.val) :
            model.channels.val[i].spec.min_per_impression # 0
     /\ \E i \in 1..Len(model.channels.val) :
            /\ model.channels.val[i].deposit_asset = DAI_ADDR
            /\ model.channels.val[i].deposit_amount = 0)
    => /\ rendered.kind = "Table"
       /\ \A r \in 1..Len(rendered.rows) :
             rendered.rows[r].deposit = 0 => rendered.rows[r].percent = SaturationPercent

\* the deposits, and the balances sums, of the list with 0 in the place of
\* every channel whose deposit asset is not DAI
DepositsOfDai(channels) ==
    [i \in 1..Len(channels) |->
        IF channels[i].deposit_asset = DAI_ADDR THEN channels[i].deposit_amount ELSE 0]
PaidOfDai(channels) ==
    [i \in 1..Len(channels) |->
        IF channels[i].deposit_asset = DAI_ADDR
        THEN balances_sum(channels[i].status) ELSE 0]

\* C10: for every Ready list, total_deposit is the sum of deposit_amount and
\* total_paid the sum of balances_sum() over exactly the channels whose
\* deposit asset is DAI; so are the totals of every render pass that
\* completes.
C10_TotalsOverDai ==
    model.channels.tag = "Ready" =>
        LET channels == model.channels.val
            deposits == sum_big(DepositsOfDai(channels))
            paid == sum_big(PaidOfDai(channels))
        IN /\ total_deposit(sorted_dai(filter_dai(channels), model.sort)) = deposits
           /\ total_paid(filter_dai(channels)) = paid
           /\ rendered.kind = "Table" =>
                 (rendered.total_deposit = deposits /\ rendered.total_paid = paid)

\* C10 witness: DAI deposits 100 and 50 with paid 10 and 5 next to a deposit
\* of 1000 in another asset render as total deposit 150 and total paid 15.
C10_Witness ==
    /\ model.channels.tag = "Ready"
    /\ Ids(model.channels.val) = << "a", "b", "c" >>
    /\ rendered.kind = "Table"
    /\ rendered.total_deposit = 150
    /\ rendered.total_paid = 15

\* ---- C11 ----

\* the per-channel quotients floor(balances_sum / min_per_impression) of a
\* list without a zero min_per_impression, as integers of arbitrary width
ExactImpressions(channels) ==
    [i \in 1..Len(channels) |->
        balances_sum(channels[i].status) \div channels[i].spec.min_per_impression]

\* a list no render pass panics on for a zero divisor
NoZeroDivisor(channels) ==
    \A i \in 1..Len(channels) :
        /\ channels[i].spec.min_per_impression # 0
        /\ channels[i].deposit_asset = DAI_ADDR => channels[i].deposit_amount # 0

\* C11: the render pass of a Ready list shows as total impressions the exact
\* sum, over every channel of the list whatever its asset, of
\* floor(balances_sum / min_per_impression); no quotient is dropped,
\* truncated or wrapped. Stated for the lists without a zero divisor.
C11_TotalImpressionsExact ==
    (model.channels.tag = "Ready" /\ NoZeroDivisor(model.channels.val)) =>
        /\ rendered.kind = "Table"
        /\ rendered.total_impressions = sum_big(ExactImpressions(model.channels.val))

\* ---- C12, C13 ----

\* the ids of the channels of a list that are in DAI and satisfy Keep, in the
\* order of the list
IdsOfDai(channels, Keep(_)) ==
    Ids(SelectSeq(channels, LAMBDA x : x.deposit_asset = DAI_ADDR /\ Keep(x)))

\* the ids of the rows that satisfy Keep, in the order of the table
IdsOfRows(rows, Keep(_)) ==
    LET kept == SelectSeq(rows, Keep) IN [i \in 1..Len(kept) |-> kept[i].id]

\* the deposit amounts of the pool
Deposits == { x.deposit_amount : x \in ChannelPool }

\* C12: with sort Deposit the rows of a render pass are in non-increasing
\* deposit_amount, and the rows of one deposit_amount are in the order their
\* channels have in the Ready list (the sort is stable); so is the sorted
\* copy of every Ready list.
C12_ByDepositDescendingStable ==
    (model.channels.tag = "Ready" /\ model.sort = "Deposit") =>
        LET channels == model.channels.val
            sorted == sort_by_deposit(filter_dai(channels))
        IN /\ \A i, j \in 1..Len(sorted) :
                 i < j => sorted[i].deposit_amount >= sorted[j].deposit_amount
           /\ \A v \in Deposits :
                 Ids(SelectSeq(sorted, LAMBDA x : x.deposit_amount = v))
                    = IdsOfDai(channels, LAMBDA x : x.deposit_amount = v)
           /\ rendered.kind = "Table" =>
                 /\ \A i, j \in 1..Len(rendered.rows) :
                       i < j => rendered.rows[i].deposit >= rendered.rows[j].deposit
                 /\ \A v \in Deposits :
                       IdsOfRows(rendered.rows, LAMBDA r : r.deposit = v)
                          = IdsOfDai(channels, LAMBDA x : x.deposit_amount = v)

\* C12 witness: the list h (50), d (100), a (100) is shown as d, a, h: the
\* larger deposits first, d still before a.
C12_Witness ==
    /\ model.channels.tag = "Ready"
    /\ model.sort = "Deposit"
    /\ Ids(model.channels.val) = << "h", "d", "a" >>
    /\ rendered.kind = "Table"
    /\ [i \in 1..Len(rendered.rows) |-> rendered.rows[i].id] = << "d", "a", "h" >>

\* the statuses in the order the enum MarketStatusType declares them
DeclaredOrder ==
    << "Initializing", "Ready", "Active", "Offline", "Disconnected",
       "Unhealthy", "Withdraw", "Expired", "Exhausted" >>

\* the statuses
Statuses == { DeclaredOrder[n] : n \in 1..Len(DeclaredOrder) }

\* status s is declared no later than status t
NotAfter(s, t) ==
    \E i, j \in 1..Len(DeclaredOrder) :
        i <= j /\ DeclaredOrder[i] = s /\ DeclaredOrder[j] = t

\* C13: with sort Status the rows of a render pass are in non-decreasing
\* declared order of status (Initializing, Ready, Active, Offline,
\* Disconnected, Unhealthy, Withdraw, Expired, Exhausted), and the rows of
\* one status are in the order their channels have in the Ready list; so is
\* the sorted copy of every Ready list.
C13_ByStatusDeclaredStable ==
    (model.channels.tag = "Ready" /\ model.sort = "Status") =>
        LET channels == model.channels.val
            sorted == sort_by_status(filter_dai(channels))
        IN /\ \A i, j \in 1..Len(sorted) :
                 i < j => NotAfter(sorted[i].status.status_type,
                                   sorted[j].status.status_type)
           /\ \A t \in Statuses :
                 Ids(SelectSeq(sorted, LAMBDA x : x.status.status_type = t))
                    = IdsOfDai(channels, LAMBDA x : x.status.status_type = t)
           /\ rendered.kind = "Table" =>
                 /\ \A i, j \in 1..Len(rendered.rows) :
                       i < j => NotAfter(rendered.rows[i].status, rendered.rows[j].status)
                 /\ \A t \in Statuses :
                       IdsOfRows(rendered.rows, LAMBDA r : r.status = t)
                          = IdsOfDai(channels, LAMBDA x : x.status.status_type = t)

\* C13 witness: the list d (Expired), h (Active), a (Active) is shown as
\* h, a, d: Active before Expired, h still before a.
C13_Witness ==
    /\ model.channels.tag = "Ready"
    /\ model.sort = "Status"
    /\ Ids(model.channels.val) = << "d", "h", "a" >>
    /\ rendered.kind = "Table"
    /\ [i \in 1..Len(rendered.rows) |-> rendered.rows[i].id] = << "h", "a", "d" >>

\* ---- C14 ----

\* C14: a render pass leaves the model alone. In every step the channels
\* cell is the payload just delivered by ChannelsLoaded or else what it was,
\* and the sort choice is what SortSelected just named or else what it was:
\* the filtered and sorted rows are never written back, so the Ready list
\* always holds the channels of the last ChannelsLoaded in their order.
C14_RenderLeavesModel ==
    [][/\ model'.channels = IF msg'.type = "ChannelsLoaded"
                            THEN Ready(msg'.channels) ELSE model.channels
       /\ model'.sort = IF msg'.type = "SortSelected" /\ msg'.sort_name = "deposit"
                        THEN "Deposit"
                        ELSE IF msg'.type = "SortSelected" /\ msg'.sort_name = "status"
                        THEN "Status" ELSE model.sort]_vars

\* C14 witness: after SortSelected("status") the rows are a (Active) and
\* d (Expired) while the Ready list still is c, d, a.
C14_Witness ==
    /\ msg.type = "SortSelected"
    /\ model.sort = "Status"
    /\ model.channels.tag = "Ready"
    /\ Ids(model.channels.val) = << "c", "d", "a" >>
    /\ rendered.kind = "Table"
    /\ [i \in 1..Len(rendered.rows) |-> rendered.rows[i].id] = << "a", "d" >>

\* ---- C15 ----

\* the list channels rearranged by the permutation p of its positions
Permuted(channels, p) == [i \in 1..Len(channels) |-> channels[p[i]]]

\* every rearrangement of the list channels
Rearrangements(channels) ==
    { Permuted(channels, p) : p \in Permutations(1..Len(channels)) }

\* C15: total_deposit and total_paid do not depend on the order of the Ready
\* list, under the sort choice of the state (either one): every
\* rearrangement of the list gives the two totals the list gives, and the
\* totals a render pass shows are those of every rearrangement of its list.
C15_TotalsOrderIndependent ==
    model.channels.tag = "Ready" =>
        \A other \in Rearrangements(model.channels.val) :
            \A deposit \in { total_deposit(sorted_dai(filter_dai(other), model.sort)) },
               paid \in { total_paid(filter_dai(other)) } :
               /\ deposit = total_deposit(sorted_dai(filter_dai(model.channels.val), model.sort))
               /\ paid = total_paid(filter_dai(model.channels.val))
               /\ rendered.kind = "Table" =>
                     (rendered.total_deposit = deposit /\ rendered.total_paid = paid)

\* C15 witness: the list b, h, a, which neither sort leaves in place, shows
\* total deposit 200 and total paid 16, as do its rearrangements.
C15_Witness ==
    /\ model.channels.tag = "Ready"
    /\ Ids(model.channels.val) = << "b", "h", "a" >>
    /\ rendered.kind = "Table"
    /\ rendered.total_deposit = 200
    /\ rendered.total_paid = 16
    /\ \E p \in Permutations(1..3) :
          /\ Ids(Permuted(model.channels.val, p)) = << "a", "b", "h" >>
          /\ view([model EXCEPT !.channels = Ready(Permuted(model.channels.val, p))],
                  overflow_checks).total_paid = 16

\* ---- C16 ----

\* the channel of the Ready list a row stands for
ChannelOfRow(row) ==
    CHOOSE x \in { model.channels.val[i] : i \in 1..Len(model.channels.val) } :
        x.id = row.id

\* floor(balances_sum * 100000 / deposit_amount), on integers
ExactUnits(channel) ==
    (balances_sum(channel.status) * 100000) \div channel.deposit_amount

C17_LoadingUntilReadyForever ==
    /\ (model.channels = Loading /\ model.sort = "Deposit")
    /\ [][/\ (model.channels.tag = "Loading" /\ model'.channels.tag # "Loading")
               => msg'.type = "ChannelsLoaded"
          /\ model.channels.tag = "Ready" => model'.channels.tag = "Ready"]_vars
    /\ [](model.channels.tag \in {"Loading", "Ready"})

\* C17 witness: the cell is Ready after a fetch has failed, a sort has been
\* chosen and another fetch has been issued.
C17_Witness ==
    /\ model.channels.tag = "Ready"
    /\ model.sort = "Status"
    /\ msg.type = "OnFetchErr"
    /\ Len(inflight) = 1

\* ---- C18 ----

\* the fetches in flight
InFlightIds == { inflight[j].id : j \in 1..Len(inflight) }

\* C18: a fetch, once issued, stays in flight until its own completion. A
\* LoadCampaigns adds one fetch and takes none away, a SortSelected leaves
\* the fetches alone, and a completion (ChannelsLoaded or OnFetchErr) ends
\* exactly one fetch, which is then gone for good: no fetch completes twice
\* and none is cancelled. While fetches are in flight, sort choices and the
\* completions of every fetch stay enabled. When every fetch resolves or
\* fails, no fetch stays in flight for ever: each one issued is eventually
\* completed.
C18_EveryFetchCompletesOnce ==
    /\ [](Cardinality(InFlightIds) = Len(inflight))
    /\ [][/\ msg'.type = "LoadCampaigns" =>
                /\ InFlightIds \subseteq InFlightIds'
                /\ Cardinality(InFlightIds') = Cardinality(InFlightIds) + 1
          /\ msg'.type = "SortSelected" => inflight' = inflight
          /\ msg'.type \in {"ChannelsLoaded", "OnFetchErr"} =>
                \E id \in InFlightIds : InFlightIds' = InFlightIds \ {id}]_vars
    /\ [](pc = "running" =>
            /\ ENABLED SortInput("status")
            /\ \A i \in 1..Len(inflight) :
                  ENABLED FetchErr(i) /\ ENABLED (\E c \in Responses : FetchOk(i, c)))
    /\ \A id \in 0..(MaxInFlight - 1) : []<>(id \notin InFlightIds)

\* C18 witness: the fetch issued first is still in flight after a fetch
\* issued later has delivered its channels.
C18_Witness ==
    /\ msg.type = "ChannelsLoaded"
    /\ Len(inflight) = 1
    /\ inflight[1].id = 0
    /\ inflight[1].overtaken

\* ---- C19 ----

\* C19: the sort choice changes only in steps that process a SortSelected,
\* and the channels cell (Loading or Ready, and the list held) changes only
\* in steps that process a ChannelsLoaded.
C19_FrameOfUpdate ==
    [][/\ model'.sort # model.sort => msg'.type = "SortSelected"
       /\ model'.channels # model.channels => msg'.type = "ChannelsLoaded"]_vars

\* C19 witness: the sort Status, chosen while Loading, is still the sort
\* after the ChannelsLoaded that made the cell Ready, with a fetch in flight.
C19_Witness ==
    /\ msg.type = "ChannelsLoaded"
    /\ model.sort = "Status"
    /\ model.channels.tag = "Ready"
    /\ Ids(model.channels.val) = << "a" >>
    /\ Len(inflight) = 1

(***************************************************************************)
(* The shape of what a render pass yields.                                 *)
(***************************************************************************)
\* ---- C20 ----

\* how many elements of the sequence s satisfy Keep
Count(s, Keep(_)) == Len(SelectSeq(s, Keep))

\* the rows are one per DAI channel of the list, in some order, and none
\* stands for a channel of another asset
RowsArePermutationOfDai(rows, channels) ==
    /\ Len(rows) = Count(channels, LAMBDA x : x.deposit_asset = DAI_ADDR)
    /\ \A c \in ChannelPool :
          Count(rows, LAMBDA r : r.id = c.id)
             = Count(channels, LAMBDA x : x.id = c.id /\ x.deposit_asset = DAI_ADDR)

\* C20: what is on screen is the loading placeholder exactly when the
\* channels cell is Loading; when the cell is Ready it is a table whose rows
\* are a permutation of the DAI channels of the list, one row each, under
\* either sort choice.
C20_PlaceholderOrTable ==
    /\ rendered.kind = "Loading" <=> model.channels.tag = "Loading"
    /\ model.channels.tag = "Ready" =>
          /\ rendered.kind = "Table"
          /\ RowsArePermutationOfDai(rendered.rows, model.channels.val)

====
